---- MODULE Spec2Model ----
(***************************************************************************)
(* Model of diva-controller-linux: the keyboard backends (uinput virtual   *)
(* device, xdotool), the backend selector, and the touch-to-key Controller *)
(* with its slide auto-release goroutines.                                 *)
(***************************************************************************)
EXTENDS Integers, Sequences, FiniteSets, TLC

(***************************************************************************)
(* Program constants                                                       *)
(***************************************************************************)
EV_KEY == 1
EV_SYN == 0
SYN_REPORT == 0

\* linuxKeyCodes: key name -> Linux input event code
linuxKeyCodes ==
    ("W" :> 17) @@ ("A" :> 30) @@ ("S" :> 31) @@ ("D" :> 32) @@
    ("w" :> 17) @@ ("a" :> 30) @@ ("s" :> 31) @@ ("d" :> 32) @@
    ("UP" :> 103) @@ ("DOWN" :> 108) @@ ("LEFT" :> 105) @@ ("RIGHT" :> 106) @@
    ("up" :> 103) @@ ("down" :> 108) @@ ("left" :> 105) @@ ("right" :> 106) @@
    ("SPACE" :> 57) @@ ("space" :> 57) @@
    ("ENTER" :> 28) @@ ("enter" :> 28) @@
    ("Q" :> 16) @@ ("E" :> 18) @@ ("R" :> 19) @@ ("F" :> 33) @@
    ("q" :> 16) @@ ("e" :> 18) @@ ("r" :> 19) @@ ("f" :> 33) @@
    ("1" :> 2) @@ ("2" :> 3) @@ ("3" :> 4) @@ ("4" :> 5) @@
    ("5" :> 6) @@ ("6" :> 7) @@ ("7" :> 8) @@ ("8" :> 9) @@ ("9" :> 10) @@ ("0" :> 11) @@
    ("I" :> 23) @@ ("J" :> 36) @@ ("K" :> 37) @@ ("L" :> 38) @@
    ("i" :> 23) @@ ("j" :> 36) @@ ("k" :> 37) @@ ("l" :> 38) @@
    ("U" :> 22) @@ ("O" :> 24) @@ ("P" :> 25) @@
    ("u" :> 22) @@ ("o" :> 24) @@ ("p" :> 25)

\* The table entries in the order the source lists them.  Go iterates a map
\* in an unspecified order; the registration loop below only depends on the
\* order through the partial set registered when a step fails.
keyOrder ==
    << "W", "A", "S", "D", "w", "a", "s", "d",
       "UP", "DOWN", "LEFT", "RIGHT", "up", "down", "left", "right",
       "SPACE", "space", "ENTER", "enter",
       "Q", "E", "R", "F", "q", "e", "r", "f",
       "1", "2", "3", "4", "5", "6", "7", "8", "9", "0",
       "I", "J", "K", "L", "i", "j", "k", "l",
       "U", "O", "P", "u", "o", "p" >>

AllCodes == { linuxKeyCodes[k] : k \in DOMAIN linuxKeyCodes }

\* strings.ToLower on the key names the model uses
ToLower(key) ==
    CASE key = "W" -> "w"
      [] key = "A" -> "a"
      [] key = "S" -> "s"
      [] key = "D" -> "d"
      [] key = "Q" -> "q"
      [] key = "E" -> "e"
      [] key = "I" -> "i"
      [] key = "J" -> "j"
      [] key = "K" -> "k"
      [] key = "L" -> "l"
      [] key = "ZZZ" -> "zzz"
      [] OTHER -> key

(***************************************************************************)
(* Go maps: a missing key reads as false                                   *)
(***************************************************************************)
EmptyMap == [k \in {} |-> FALSE]

MapGet(m, k) == k \in DOMAIN m /\ m[k]

MapPut(m, k, v) == (k :> v) @@ m

PressedKeys(m) == { k \in DOMAIN m : m[k] }

(***************************************************************************)
(* The world a backend acts on:                                            *)
(*   kb     the backend object: kind, fd, keyState                         *)
(*   dev    the kernel side of the uinput handle                           *)
(*   events the input_event records written to the uinput device           *)
(*   xdo    the xdotool invocations that ran successfully                  *)
(***************************************************************************)
NoDev == [evbit |-> FALSE, keybits |-> {}, descr |-> FALSE, created |-> FALSE]

NoBackend == [kind |-> "none", keyState |-> EmptyMap]

inputEvent(typ, code, value) == [type |-> typ, code |-> code, value |-> value]

\* sendEvent: one write of one input_event record to u.fd; the write fails on
\* a closed descriptor (EBADF) or when the environment makes it fail (~ok)
sendEvent(w, typ, code, value, ok) ==
    IF w.handle = "open" /\ ok
    THEN [w |-> [w EXCEPT !.events = Append(@, inputEvent(typ, code, value))],
          err |-> "none"]
    ELSE [w |-> w, err |-> "IOError"]

sync(w, ok) == sendEvent(w, EV_SYN, SYN_REPORT, 0, ok)

\* UInputPress without the early return for a key already marked pressed
UInputPress_NoGuard(w, key, io) ==
    IF key \notin DOMAIN linuxKeyCodes
    THEN [w |-> w, err |-> "UnknownKey"]
    ELSE LET r1 == sendEvent(w, EV_KEY, linuxKeyCodes[key], 1, io[1])
         IN  IF r1.err # "none" THEN r1
             ELSE LET r2 == sync(r1.w, io[2])
                  IN  IF r2.err # "none" THEN r2
                      ELSE [w |-> [r2.w EXCEPT !.kb.keyState = MapPut(@, key, TRUE)],
                            err |-> "none"]

\* UInputPress reading the table without the ok check: a missing name
\* yields code 0
UInputPress_ZeroCode(w, key, io) ==
    IF MapGet(w.kb.keyState, key)
    THEN [w |-> w, err |-> "none"]
    ELSE LET code == IF key \in DOMAIN linuxKeyCodes THEN linuxKeyCodes[key] ELSE 0
             r1 == sendEvent(w, EV_KEY, code, 1, io[1])
         IN  IF r1.err # "none" THEN r1
             ELSE LET r2 == sync(r1.w, io[2])
                  IN  IF r2.err # "none" THEN r2
                      ELSE [w |-> [r2.w EXCEPT !.kb.keyState = MapPut(@, key, TRUE)],
                            err |-> "none"]

\* io = <<ok1, ok2>>: whether the first and the second write succeed
UInputPress(w, key, io) ==
    IF MapGet(w.kb.keyState, key)
    THEN [w |-> w, err |-> "none"]
    ELSE IF key \notin DOMAIN linuxKeyCodes
    THEN [w |-> w, err |-> "UnknownKey"]
    ELSE LET r1 == sendEvent(w, EV_KEY, linuxKeyCodes[key], 1, io[1])
         IN  IF r1.err # "none" THEN r1
             ELSE LET r2 == sync(r1.w, io[2])
                  IN  IF r2.err # "none" THEN r2
                      ELSE [w |-> [r2.w EXCEPT !.kb.keyState = MapPut(@, key, TRUE)],
                            err |-> "none"]

\* UInputRelease marking the key released before the writes
UInputRelease_MarkFirst(w, key, io) ==
    IF ~MapGet(w.kb.keyState, key)
    THEN [w |-> w, err |-> "none"]
    ELSE IF key \notin DOMAIN linuxKeyCodes
    THEN [w |-> w, err |-> "UnknownKey"]
    ELSE LET w0 == [w EXCEPT !.kb.keyState = MapPut(@, key, FALSE)]
             r1 == sendEvent(w0, EV_KEY, linuxKeyCodes[key], 0, io[1])
         IN  IF r1.err # "none" THEN r1 ELSE sync(r1.w, io[2])

UInputRelease(w, key, io) ==
    IF ~MapGet(w.kb.keyState, key)
    THEN [w |-> w, err |-> "none"]
    ELSE IF key \notin DOMAIN linuxKeyCodes
    THEN [w |-> w, err |-> "UnknownKey"]
    ELSE LET r1 == sendEvent(w, EV_KEY, linuxKeyCodes[key], 0, io[1])
         IN  IF r1.err # "none" THEN r1
             ELSE LET r2 == sync(r1.w, io[2])
                  IN  IF r2.err # "none" THEN r2
                      ELSE [w |-> [r2.w EXCEPT !.kb.keyState = MapPut(@, key, FALSE)],
                            err |-> "none"]

\* exec.Command("xdotool", sub, strings.ToLower(key)).Run(); io[1] says
\* whether the subprocess launches and exits zero
xdotool(w, sub, key, io) ==
    IF io[1]
    THEN [w |-> [w EXCEPT !.xdo = Append(@, [cmd |-> sub, arg |-> ToLower(key)])],
          err |-> "none"]
    ELSE [w |-> w, err |-> "ExecError"]

X11Press(w, key, io) ==
    IF MapGet(w.kb.keyState, key)
    THEN [w |-> w, err |-> "none"]
    ELSE LET r == xdotool(w, "keydown", key, io)
         IN  IF r.err # "none" THEN r
             ELSE [w |-> [r.w EXCEPT !.kb.keyState = MapPut(@, key, TRUE)],
                   err |-> "none"]

X11Release(w, key, io) ==
    IF ~MapGet(w.kb.keyState, key)
    THEN [w |-> w, err |-> "none"]
    ELSE LET r == xdotool(w, "keyup", key, io)
         IN  IF r.err # "none" THEN r
             ELSE [w |-> [r.w EXCEPT !.kb.keyState = MapPut(@, key, FALSE)],
                   err |-> "none"]

\* KeyboardBackend interface dispatch
Press(w, key, io) ==
    IF w.kb.kind = "uinput" THEN UInputPress(w, key, io) ELSE X11Press(w, key, io)

Release(w, key, io) ==
    IF w.kb.kind = "uinput" THEN UInputRelease(w, key, io) ELSE X11Release(w, key, io)

\* The loop leaving after its first iteration
ReleaseAll_FirstOnly(w, order, ios) ==
    IF order = << >> THEN [w |-> w, dropped |-> 0]
    ELSE LET r == Release(w, Head(order), ios[Head(order)])
         IN  [w |-> r.w, dropped |-> IF r.err = "none" THEN 0 ELSE 1]

\* for key := range keyState { Release(key) }: the keys of the map in the
\* iteration order the runtime picked, each Release with its own write
\* outcomes; the returned errors are dropped (and counted here)
RECURSIVE ReleaseAll(_, _, _)
ReleaseAll(w, order, ios) ==
    IF order = << >> THEN [w |-> w, dropped |-> 0]
    ELSE LET r == Release(w, Head(order), ios[Head(order)])
             rest == ReleaseAll(r.w, Tail(order), ios)
         IN  [w |-> rest.w,
              dropped |-> rest.dropped + (IF r.err = "none" THEN 0 ELSE 1)]

UInputClose(w, order, ios) ==
    LET ra == ReleaseAll(w, order, ios)
        \* UI_DEV_DESTROY, then syscall.Close(u.fd)
        w2 == IF ra.w.handle = "open"
              THEN [ra.w EXCEPT !.dev = NoDev, !.handle = "closed"]
              ELSE ra.w
    IN  [w |-> w2, err |-> IF ra.w.handle = "open" THEN "none" ELSE "IOError",
         dropped |-> ra.dropped]

X11Close(w, order, ios) ==
    LET ra == ReleaseAll(w, order, ios)
    IN  [w |-> ra.w, err |-> "none", dropped |-> ra.dropped]

Close(w, order, ios) ==
    IF w.kb.kind = "uinput" THEN UInputClose(w, order, ios) ELSE X11Close(w, order, ios)

(***************************************************************************)
(* Backend construction and selection                                      *)
(***************************************************************************)
\* The steps of NewUInputBackend that can fail; "keybit" fails at the
\* idx-th iteration of the registration loop
UInputSteps == {"open", "evbit", "keybit", "write", "create"}

UInputEnvs ==
    {[step |-> s, idx |-> 0] : s \in (UInputSteps \ {"keybit"}) \cup {"none"}}
    \cup {[step |-> "keybit", idx |-> i] : i \in 1..Len(keyOrder)}

\* A failing step that returns without syscall.Close(fd)
closeAndFail_Leak(h, e) ==
    [kb |-> NoBackend, handle |-> h.handle, dev |-> h.dev, err |-> e]

\* syscall.Close(fd); return nil, err  -- closing a handle on which no device
\* was created discards everything registered on it
closeAndFail(h, e) ==
    [kb |-> NoBackend, handle |-> "closed", dev |-> NoDev, err |-> e]

NewUInputBackend(e) ==
    IF e.step = "open"
    THEN [kb |-> NoBackend, handle |-> "none", dev |-> NoDev, err |-> "PermissionDenied"]
    ELSE
    LET h1 == [handle |-> "open", dev |-> NoDev]
    IN  IF e.step = "evbit" THEN closeAndFail(h1, "SetEvbit")
    ELSE
    LET h2 == [h1 EXCEPT !.dev.evbit = TRUE]
        nreg == IF e.step = "keybit" THEN e.idx - 1 ELSE Len(keyOrder)
        h3 == [h2 EXCEPT !.dev.keybits = { linuxKeyCodes[keyOrder[i]] : i \in 1..nreg }]
    IN  IF e.step = "keybit" THEN closeAndFail(h3, "SetKeybit")
    ELSE IF e.step = "write" THEN closeAndFail(h3, "WriteDeviceInfo")
    ELSE
    LET h4 == [h3 EXCEPT !.dev.descr = TRUE]
    IN  IF e.step = "create" THEN closeAndFail(h4, "CreateDevice")
    ELSE [kb |-> [kind |-> "uinput", keyState |-> EmptyMap],
          handle |-> "open",
          dev |-> [h4.dev EXCEPT !.created = TRUE],
          err |-> "none"]

\* exec.LookPath("xdotool")
NewX11Backend(found) ==
    IF found
    THEN [kb |-> [kind |-> "x11", keyState |-> EmptyMap], err |-> "none"]
    ELSE [kb |-> NoBackend, err |-> "ToolNotFound"]

\* env: the uinput outcome, whether DISPLAY is non-empty, whether xdotool
\* is on the PATH.  attempted: the constructors that were called, in order.
SelectEnvs ==
    [uinput : UInputEnvs, display : BOOLEAN, xdotool : BOOLEAN]

NoEnv == [uinput |-> [step |-> "unset", idx |-> 0], display |-> FALSE, xdotool |-> FALSE]

\* The selector trying xdotool without looking at DISPLAY
NewKeyboardBackend_NoDisplayCheck(e) ==
    LET u == NewUInputBackend(e.uinput)
    IN  IF u.err = "none"
        THEN [kb |-> u.kb, handle |-> u.handle, dev |-> u.dev,
              attempted |-> <<"uinput">>, err |-> "none"]
        ELSE LET x == NewX11Backend(e.xdotool)
             IN  IF x.err = "none"
                 THEN [kb |-> x.kb, handle |-> u.handle, dev |-> u.dev,
                       attempted |-> <<"uinput", "x11">>, err |-> "none"]
                 ELSE [kb |-> NoBackend, handle |-> u.handle, dev |-> u.dev,
                       attempted |-> <<"uinput", "x11">>, err |-> "NoBackendAvailable"]

NewKeyboardBackend(e) ==
    LET u == NewUInputBackend(e.uinput)
    IN  IF u.err = "none"
        THEN [kb |-> u.kb, handle |-> u.handle, dev |-> u.dev,
              attempted |-> <<"uinput">>, err |-> "none"]
        ELSE IF e.display
        THEN LET x == NewX11Backend(e.xdotool)
             IN  IF x.err = "none"
                 THEN [kb |-> x.kb, handle |-> u.handle, dev |-> u.dev,
                       attempted |-> <<"uinput", "x11">>, err |-> "none"]
                 ELSE [kb |-> NoBackend, handle |-> u.handle, dev |-> u.dev,
                       attempted |-> <<"uinput", "x11">>, err |-> "NoBackendAvailable"]
        ELSE [kb |-> NoBackend, handle |-> u.handle, dev |-> u.dev,
              attempted |-> <<"uinput">>, err |-> "NoBackendAvailable"]

(***************************************************************************)
(* Configuration (flag defaults of main) and touch events                  *)
(***************************************************************************)
DefaultConfig ==
    [TriangleKey |-> "W", SquareKey |-> "A", CrossKey |-> "S", CircleKey |-> "D",
     UpArrowKey |-> "I", DownArrowKey |-> "K", LeftArrowKey |-> "J", RightArrowKey |-> "L",
     SliderLeftKey |-> "Q", SliderRightKey |-> "E"]

\* A command line that binds one name twice (triangle and slider-right), two
\* names of one key code ("W", "w") and a name outside the table ("ZZZ")
OddConfig ==
    [DefaultConfig EXCEPT !.CrossKey = "w", !.CircleKey = "ZZZ", !.SliderRightKey = "W"]

Configs == {DefaultConfig, OddConfig}

\* The circle case returning the cross bindings
getKeyForZone_CircleAsCross(cfg, zone, isSecond) ==
    CASE zone = "triangle" -> IF isSecond THEN cfg.UpArrowKey ELSE cfg.TriangleKey
      [] zone = "square" -> IF isSecond THEN cfg.LeftArrowKey ELSE cfg.SquareKey
      [] zone = "cross" -> IF isSecond THEN cfg.DownArrowKey ELSE cfg.CrossKey
      [] zone = "circle" -> IF isSecond THEN cfg.DownArrowKey ELSE cfg.CrossKey
      [] OTHER -> ""

\* Every zone resolved to its arrow binding, whatever isSecond says
getKeyForZone_Second(cfg, zone, isSecond) ==
    CASE zone = "triangle" -> cfg.UpArrowKey
      [] zone = "square" -> cfg.LeftArrowKey
      [] zone = "cross" -> cfg.DownArrowKey
      [] zone = "circle" -> cfg.RightArrowKey
      [] OTHER -> ""

getKeyForZone(cfg, zone, isSecond) ==
    CASE zone = "triangle" -> IF isSecond THEN cfg.UpArrowKey ELSE cfg.TriangleKey
      [] zone = "square" -> IF isSecond THEN cfg.LeftArrowKey ELSE cfg.SquareKey
      [] zone = "cross" -> IF isSecond THEN cfg.DownArrowKey ELSE cfg.CrossKey
      [] zone = "circle" -> IF isSecond THEN cfg.RightArrowKey ELSE cfg.CircleKey
      [] OTHER -> ""

\* Bounds of the model
NConns == 2
MaxTouchId == 1
MaxTouches == 2
MaxCalls == 4

Conns == 1..NConns

ZoneNames == {"triangle", "square", "cross", "circle"}

\* vx in hundredths: 0.5 is 50, 0.51 is 51
threshold == 50

VXs == {-60, -50, 0, 50, 51}

\* fmt.Sprintf("%d", id)
IdStr(id) == CASE id = 0 -> "0" [] id = 1 -> "1" [] id = 2 -> "2" [] id = 3 -> "3" [] OTHER -> "n"

TouchEvents ==
    [type : {"start", "end"}, id : 1..MaxTouchId, zone : ZoneNames, vx : {0}]
    \cup [type : {"start", "end"}, id : {1}, zone : {"slider"}, vx : {0}]
    \cup [type : {"slide"}, id : {0}, zone : {"slider"}, vx : VXs]
    \cup [type : {"move"}, id : {1}, zone : {"triangle"}, vx : {0}]

\* <<first write succeeds, second write succeeds>>
IOs == {<<TRUE, TRUE>>, <<TRUE, FALSE>>, <<FALSE, FALSE>>}

Idle == [type |-> "idle", id |-> 0, zone |-> "", vx |-> 0]

NoCall ==
    [by |-> "none", zone |-> "", vx |-> 0, op |-> "none", key |-> "",
     seen |-> FALSE, was |-> FALSE, err |-> "none", dropped |-> 0]

Dirs == {"left", "right"}

\* Close has not been entered
NotClosing == [phase |-> "idle", begun |-> {}, visited |-> {}, cur |-> ""]

\* The two slider bindings exchanged
SliderKey_Swapped(cfg, d) == IF d = "right" THEN cfg.SliderLeftKey ELSE cfg.SliderRightKey

SliderKey(cfg, d) == IF d = "right" THEN cfg.SliderRightKey ELSE cfg.SliderLeftKey

(***************************************************************************)
(* State                                                                   *)
(***************************************************************************)
VARIABLES
    pc,          \* main: "start", "serving", "exited"
    config,      \* the parsed flags
    keyboard,    \* the selected backend object (kind, keyState)
    handle,      \* the uinput file descriptor: "none", "open", "closed"
    dev,         \* the kernel's device behind the handle
    events,      \* records the most recent activity wrote to the uinput device
    xdo,         \* xdotool invocations of the most recent activity that succeeded
    attempted,   \* backend constructors called by NewKeyboardBackend
    selErr,      \* the error NewKeyboardBackend returned
    closed,      \* Close has been called on the backend
    last,        \* the most recent activity: who ran, and the backend call it made
    mu,          \* Controller.mu is locked
    conn,        \* per connection: Idle, or the event HandleTouch is handling
    sliderState, \* Controller.sliderState
    activeKeys,  \* Controller.activeKeys (the keys of the map)
    sleeping,    \* per direction: auto-release goroutines in time.Sleep
    running,     \* per direction: auto-release goroutines holding the lock
    env,         \* the environment NewKeyboardBackend met (recorded under SpecStartup)
    count,       \* inputs taken so far: touch messages read, or calls of a direct caller
    closing      \* where a Close that runs beside the goroutines stands

vars == << pc, config, keyboard, handle, dev, events, xdo, attempted, selErr,
           closed, last, mu, conn, sliderState, activeKeys, sleeping, running,
           env, count, closing >>

backendVars == << keyboard, handle, dev, events, xdo >>

ctlVars == << mu, conn, sliderState, activeKeys, sleeping, running, count, closing >>

\* The world a backend call starts from; events and xdo collect what the call emits
World == [kb |-> keyboard, handle |-> handle, dev |-> dev, events |-> << >>, xdo |-> << >>]

SetWorld(w) ==
    /\ keyboard' = w.kb
    /\ handle' = w.handle
    /\ dev' = w.dev
    /\ events' = w.events
    /\ xdo' = w.xdo

Init ==
    /\ pc = "start"
    /\ config \in Configs
    /\ keyboard = NoBackend
    /\ handle = "none"
    /\ dev = NoDev
    /\ events = << >>
    /\ xdo = << >>
    /\ attempted = << >>
    /\ selErr = "none"
    /\ closed = FALSE
    /\ last = NoCall
    /\ mu = FALSE
    /\ conn = [c \in Conns |-> Idle]
    /\ sliderState = [left |-> FALSE, right |-> FALSE]
    /\ activeKeys = {}
    /\ sleeping = [d \in Dirs |-> 0]
    /\ running = [d \in Dirs |-> 0]
    /\ env = NoEnv
    /\ count = 0
    /\ closing = NotClosing

(***************************************************************************)
(* main                                                                    *)
(***************************************************************************)
\* keyboard, err := NewKeyboardBackend(); log.Fatalf on error;
\* NewController(keyboard, config)
Boot(e) ==
    /\ pc = "start"
    /\ LET r == NewKeyboardBackend(e)
       IN  /\ keyboard' = r.kb
           /\ handle' = r.handle
           /\ dev' = r.dev
           /\ attempted' = r.attempted
           /\ selErr' = r.err
           /\ pc' = IF r.err = "none" THEN "serving" ELSE "exited"
    /\ UNCHANGED << config, events, xdo, closed, last, ctlVars >>

Startup == \E e \in SelectEnvs : Boot(e) /\ UNCHANGED env

\* The same step with the environment it met kept for inspection
StartupObserved == \E e \in SelectEnvs : Boot(e) /\ env' = e

\* http.ListenAndServe returns an error; log.Fatalf exits the process
\* (os.Exit runs no deferred call and ends every goroutine)
ServerError ==
    /\ pc = "serving"
    /\ ~closed
    /\ pc' = "exited"
    /\ UNCHANGED << config, backendVars, attempted, selErr, closed, last, ctlVars, env >>

(***************************************************************************)
(* Controller                                                              *)
(***************************************************************************)
\* The threshold compared with >= and <=
SlideDir_Inclusive(vx) ==
    IF vx >= threshold THEN "right"
    ELSE IF vx <= -threshold THEN "left"
    ELSE "none"

\* The branch of the slide case an event takes
SlideDir(vx) ==
    IF vx > threshold THEN "right"
    ELSE IF vx < -threshold THEN "left"
    ELSE "none"

\* The slide case without the active-flag test
SlideFires_Always(ss, d) == TRUE

\* if !c.sliderState.right / if !c.sliderState.left
SlideFires(ss, d) == ~ss[d]

\* What is recorded of an activity: who ran (by, zone, vx), the backend call
\* it made (op, key), whether the key was in the map and marked pressed
\* before, the error returned, and how many errors the call itself ignored
Call(by, zone, vx, op, key, r) ==
    [by |-> by, zone |-> zone, vx |-> vx, op |-> op, key |-> key,
     seen |-> key \in DOMAIN keyboard.keyState,
     was |-> MapGet(keyboard.keyState, key), err |-> r.err, dropped |-> 0]

\* An activity that made no backend call
Quiet(by, zone, vx) ==
    /\ last' = [NoCall EXCEPT !.by = by, !.zone = zone, !.vx = vx]
    /\ events' = << >>
    /\ xdo' = << >>
    /\ UNCHANGED << keyboard, handle, dev >>

\* HandleTouch entering its body without waiting for c.mu
HandleTouchLock_NoMutex(c, ev) ==
    /\ pc = "serving"
    /\ conn[c] = Idle
    /\ count < MaxTouches
    /\ mu' = TRUE
    /\ conn' = [conn EXCEPT ![c] = ev]
    /\ count' = count + 1
    /\ UNCHANGED << pc, config, backendVars, attempted, selErr, closed, last,
                    sliderState, activeKeys, sleeping, running, env, closing >>

\* handleWebSocket read a message and HandleTouch took c.mu
HandleTouchLock(c, ev) ==
    /\ pc = "serving"
    /\ conn[c] = Idle
    /\ ~mu
    /\ count < MaxTouches
    /\ mu' = TRUE
    /\ conn' = [conn EXCEPT ![c] = ev]
    /\ count' = count + 1
    /\ UNCHANGED << pc, config, backendVars, attempted, selErr, closed, last,
                    sliderState, activeKeys, sleeping, running, env, closing >>

\* case "start"
TouchStart(ev, io) ==
    LET key == getKeyForZone(config, ev.zone, FALSE)
    IN  IF key # ""
        THEN LET r == Press(World, key, io)
             IN  /\ SetWorld(r.w)
                 /\ last' = Call("start", ev.zone, ev.vx, "press", key, r)
                 /\ activeKeys' = activeKeys \cup {IdStr(ev.id)}
                 /\ UNCHANGED << sliderState, sleeping >>
        ELSE /\ Quiet("start", ev.zone, ev.vx)
             /\ UNCHANGED << activeKeys, sliderState, sleeping >>

\* case "end"
TouchEnd(ev, io) ==
    LET key == getKeyForZone(config, ev.zone, FALSE)
    IN  IF key # ""
        THEN LET r == Release(World, key, io)
             IN  /\ SetWorld(r.w)
                 /\ last' = Call("end", ev.zone, ev.vx, "release", key, r)
                 /\ activeKeys' = activeKeys \ {IdStr(ev.id)}
                 /\ UNCHANGED << sliderState, sleeping >>
        ELSE /\ Quiet("end", ev.zone, ev.vx)
             /\ UNCHANGED << activeKeys, sliderState, sleeping >>

\* The slide case setting the flag without starting the goroutine
TouchSlide_NoGoroutine(ev, io) ==
    LET d == SlideDir(ev.vx)
    IN  IF d # "none" /\ SlideFires(sliderState, d)
        THEN LET r == Press(World, SliderKey(config, d), io)
             IN  /\ SetWorld(r.w)
                 /\ last' = Call("slide", ev.zone, ev.vx, "press", SliderKey(config, d), r)
                 /\ sliderState' = [sliderState EXCEPT ![d] = TRUE]
                 /\ UNCHANGED << activeKeys, sleeping >>
        ELSE /\ Quiet("slide", ev.zone, ev.vx)
             /\ UNCHANGED << activeKeys, sliderState, sleeping >>

\* case "slide"
TouchSlide(ev, io) ==
    LET d == SlideDir(ev.vx)
    IN  IF d # "none" /\ SlideFires(sliderState, d)
        THEN LET r == Press(World, SliderKey(config, d), io)
             IN  /\ SetWorld(r.w)
                 /\ last' = Call("slide", ev.zone, ev.vx, "press", SliderKey(config, d), r)
                 /\ sliderState' = [sliderState EXCEPT ![d] = TRUE]
                 \* go func() { time.Sleep(...); ... }()
                 /\ sleeping' = [sleeping EXCEPT ![d] = @ + 1]
                 /\ UNCHANGED activeKeys
        ELSE /\ Quiet("slide", ev.zone, ev.vx)
             /\ UNCHANGED << activeKeys, sliderState, sleeping >>

\* HandleTouch returning without the Unlock when the backend call failed
HandleTouch_KeepLockOnError(c, io) ==
    /\ pc = "serving"
    /\ conn[c] # Idle
    /\ CASE conn[c].type = "start" -> TouchStart(conn[c], io)
         [] conn[c].type = "end" -> TouchEnd(conn[c], io)
         [] conn[c].type = "slide" -> TouchSlide(conn[c], io)
         [] OTHER -> /\ Quiet(conn[c].type, conn[c].zone, conn[c].vx)
                     /\ UNCHANGED << activeKeys, sliderState, sleeping >>
    /\ mu' = (last'.err # "none")
    /\ conn' = [conn EXCEPT ![c] = Idle]
    /\ UNCHANGED << pc, config, attempted, selErr, closed, running, env, closing, count >>

\* The body of HandleTouch and the deferred c.mu.Unlock()
HandleTouch(c, io) ==
    /\ pc = "serving"
    /\ conn[c] # Idle
    /\ CASE conn[c].type = "start" -> TouchStart(conn[c], io)
         [] conn[c].type = "end" -> TouchEnd(conn[c], io)
         [] conn[c].type = "slide" -> TouchSlide(conn[c], io)
         [] OTHER -> /\ Quiet(conn[c].type, conn[c].zone, conn[c].vx)
                     /\ UNCHANGED << activeKeys, sliderState, sleeping >>
    /\ mu' = FALSE
    /\ conn' = [conn EXCEPT ![c] = Idle]
    /\ UNCHANGED << pc, config, attempted, selErr, closed, running, env, closing, count >>

\* The auto-release goroutine: time.Sleep is over and it took c.mu
AutoReleaseLock(d) ==
    /\ pc = "serving"
    /\ sleeping[d] > 0
    /\ ~mu
    /\ mu' = TRUE
    /\ sleeping' = [sleeping EXCEPT ![d] = @ - 1]
    /\ running' = [running EXCEPT ![d] = @ + 1]
    /\ UNCHANGED << pc, config, backendVars, attempted, selErr, closed, last,
                    conn, sliderState, activeKeys, env, closing, count >>

\* c.keyboard.Release(slider key); flag = false; c.mu.Unlock()
AutoRelease(d, io) ==
    /\ pc = "serving"
    /\ running[d] > 0
    /\ LET r == Release(World, SliderKey(config, d), io)
       IN  /\ SetWorld(r.w)
           /\ last' = Call("auto", d, 0, "release", SliderKey(config, d), r)
    /\ sliderState' = [sliderState EXCEPT ![d] = FALSE]
    /\ mu' = FALSE
    /\ running' = [running EXCEPT ![d] = @ - 1]
    /\ UNCHANGED << pc, config, attempted, selErr, closed, conn, activeKeys, sleeping,
                    env, closing, count >>

Next ==
    \/ Startup
    \/ ServerError
    \/ \E c \in Conns, ev \in TouchEvents : HandleTouchLock(c, ev)
    \/ \E c \in Conns, io \in IOs : HandleTouch(c, io)
    \/ \E d \in Dirs : AutoReleaseLock(d)
    \/ \E d \in Dirs, io \in IOs : AutoRelease(d, io)

Spec == Init /\ [][Next]_vars

(***************************************************************************)
(* Startup alone, with the environment kept                                *)
(***************************************************************************)
NextStartup == StartupObserved

SpecStartup == Init /\ [][NextStartup]_vars

(***************************************************************************)
(* The backend driven through its interface by any caller                  *)
(***************************************************************************)
BackendKeys == {"W", "w", "A", "ZZZ"}

Orders(S) ==
    { o \in [1..Cardinality(S) -> S] : \A i, j \in 1..Cardinality(S) : o[i] = o[j] => i = j }

BackendPress(key, io) ==
    /\ pc = "serving"
    /\ count < MaxCalls
    /\ count' = count + 1
    /\ LET r == Press(World, key, io)
       IN  /\ SetWorld(r.w)
           /\ last' = Call("caller", "", 0, "press", key, r)
    /\ UNCHANGED << pc, config, attempted, selErr, closed, mu, conn, sliderState,
                    activeKeys, sleeping, running, env, closing >>

BackendRelease(key, io) ==
    /\ pc = "serving"
    /\ count < MaxCalls
    /\ count' = count + 1
    /\ LET r == Release(World, key, io)
       IN  /\ SetWorld(r.w)
           /\ last' = Call("caller", "", 0, "release", key, r)
    /\ UNCHANGED << pc, config, attempted, selErr, closed, mu, conn, sliderState,
                    activeKeys, sleeping, running, env, closing >>

\* Close is called once
BackendClose ==
    /\ pc = "serving"
    /\ ~closed
    /\ \E order \in Orders(DOMAIN keyboard.keyState) :
       \E ios \in [DOMAIN keyboard.keyState -> IOs] :
         LET r == Close(World, order, ios)
         IN  /\ SetWorld(r.w)
             /\ last' = [Call("caller", "", 0, "close", "", r) EXCEPT !.dropped = r.dropped]
    /\ closed' = TRUE
    /\ UNCHANGED << pc, config, attempted, selErr, ctlVars, env >>

NextBackend ==
    \/ Startup
    \/ \E key \in BackendKeys, io \in IOs : BackendPress(key, io)
    \/ \E key \in BackendKeys, io \in IOs : BackendRelease(key, io)
    \/ BackendClose

SpecBackend == Init /\ [][NextBackend]_vars

(***************************************************************************)
(* Close run by main beside the handlers and the goroutines.  Close takes  *)
(* no lock: its loop over keyState interleaves with the locked bodies at   *)
(* every read and write.  (http.ListenAndServe never returns nil, so main  *)
(* as built does not reach its deferred Close; this specification shows    *)
(* what Close does when it is run while the Controller is live.)           *)
(***************************************************************************)
notClosingVars ==
    << pc, config, backendVars, attempted, selErr, closed, last, mu, conn,
       sliderState, activeKeys, sleeping, running, env, count >>

\* for key := range u.keyState
CloseBegin ==
    /\ pc = "serving"
    /\ closing.phase = "idle"
    /\ closing' = [phase |-> "loop", begun |-> DOMAIN keyboard.keyState,
                   visited |-> {}, cur |-> ""]
    /\ UNCHANGED notClosingVars

\* The next key of the range (an entry inserted meanwhile may be produced
\* or skipped) and the first test of Release: if !u.keyState[key] return nil
CloseCheck(k) ==
    /\ pc = "serving"
    /\ closing.phase = "loop"
    /\ k \in (closing.begun \cup DOMAIN keyboard.keyState) \ closing.visited
    /\ closing' = IF MapGet(keyboard.keyState, k)
                  THEN [closing EXCEPT !.phase = "emit", !.cur = k]
                  ELSE [closing EXCEPT !.visited = @ \cup {k}]
    /\ UNCHANGED notClosingVars

\* The rest of that Release: the writes (or the xdotool run), then
\* keyState[key] = false; an error leaves the map as it is now
CloseEmit(io) ==
    /\ pc = "serving"
    /\ closing.phase = "emit"
    /\ LET k == closing.cur
           r == Release([World EXCEPT !.kb.keyState = MapPut(@, k, TRUE)], k, io)
       IN  /\ events' = r.w.events
           /\ xdo' = r.w.xdo
           /\ keyboard' = IF r.err = "none"
                          THEN [keyboard EXCEPT !.keyState = MapPut(@, k, FALSE)]
                          ELSE keyboard
           /\ last' = Call("close", "", 0, "release", k, r)
           /\ closing' = [closing EXCEPT !.phase = "loop", !.visited = @ \cup {k},
                                         !.cur = ""]
    /\ UNCHANGED << pc, config, handle, dev, attempted, selErr, closed, mu, conn,
                    sliderState, activeKeys, sleeping, running, env, count >>

\* The loop is over: UI_DEV_DESTROY and syscall.Close(u.fd) on the virtual
\* device; nothing more on the xdotool backend
CloseDestroy ==
    /\ pc = "serving"
    /\ closing.phase = "loop"
    /\ closing.begun \subseteq closing.visited
    /\ IF keyboard.kind = "uinput" /\ handle = "open"
       THEN handle' = "closed" /\ dev' = NoDev
       ELSE UNCHANGED << handle, dev >>
    /\ closed' = TRUE
    /\ closing' = [closing EXCEPT !.phase = "done"]
    /\ UNCHANGED << pc, config, keyboard, events, xdo, attempted, selErr, last, mu,
                    conn, sliderState, activeKeys, sleeping, running, env, count >>

\* main returns after its deferred call: the process and its goroutines end
MainReturn ==
    /\ pc = "serving"
    /\ closing.phase = "done"
    /\ pc' = "exited"
    /\ UNCHANGED << config, backendVars, attempted, selErr, closed, last, ctlVars, env >>

NextShutdown ==
    \/ Startup
    \/ \E c \in Conns, ev \in TouchEvents : HandleTouchLock(c, ev)
    \/ \E c \in Conns, io \in IOs : HandleTouch(c, io)
    \/ \E d \in Dirs : AutoReleaseLock(d)
    \/ \E d \in Dirs, io \in IOs : AutoRelease(d, io)
    \/ CloseBegin
    \/ \E k \in DOMAIN linuxKeyCodes \cup {"ZZZ"} : CloseCheck(k)
    \/ \E io \in IOs : CloseEmit(io)
    \/ CloseDestroy
    \/ MainReturn

SpecShutdown == Init /\ [][NextShutdown]_vars

(***************************************************************************)
(* The backend driven by calls whose writes and tool runs all succeed      *)
(***************************************************************************)
OkIO == <<TRUE, TRUE>>

NextBackendOk ==
    \/ Startup
    \/ \E key \in BackendKeys : BackendPress(key, OkIO)
    \/ \E key \in BackendKeys : BackendRelease(key, OkIO)

SpecBackendOk == Init /\ [][NextBackendOk]_vars

(***************************************************************************)
(* The Controller over a backend whose calls all succeed                   *)
(***************************************************************************)
NextTouch ==
    \/ Startup
    \/ \E c \in Conns, ev \in TouchEvents : HandleTouchLock(c, ev)
    \/ \E c \in Conns : HandleTouch(c, OkIO)
    \/ \E d \in Dirs : AutoReleaseLock(d)
    \/ \E d \in Dirs : AutoRelease(d, OkIO)

SpecTouch == Init /\ [][NextTouch]_vars

TypeOK ==
    /\ pc \in {"start", "serving", "exited"}
    /\ keyboard.kind \in {"none", "uinput", "x11"}
    /\ handle \in {"none", "open", "closed"}
    /\ mu \in BOOLEAN

(***************************************************************************)
(* Vocabulary of the properties                                            *)
(***************************************************************************)
SynEvent == [type |-> EV_SYN, code |-> SYN_REPORT, value |-> 0]

\* The code a key name is written with; -1 for a name outside the table
CodeOf(key) == IF key \in DOMAIN linuxKeyCodes THEN linuxKeyCodes[key] ELSE -1

\* Number of key events of the given value (1 down, 0 up) in what an activity
\* emitted, on either backend; with a key, only those of that key
KeyEvents(ev, xd, value) ==
    Cardinality({ i \in 1..Len(ev) : ev[i].type = EV_KEY /\ ev[i].value = value })
    + Cardinality({ i \in 1..Len(xd) : xd[i].cmd = (IF value = 1 THEN "keydown" ELSE "keyup") })

KeyEventsFor(key, ev, xd, value) ==
    Cardinality({ i \in 1..Len(ev) :
                    ev[i].type = EV_KEY /\ ev[i].value = value /\ ev[i].code = CodeOf(key) })
    + Cardinality({ i \in 1..Len(xd) :
                    /\ xd[i].cmd = (IF value = 1 THEN "keydown" ELSE "keyup")
                    /\ xd[i].arg = ToLower(key) })

\* Key-up events that were followed by their synchronization event, plus
\* xdotool keyup runs
CompletedUps(ev, xd) ==
    Cardinality({ i \in 1..Len(ev) :
                    /\ ev[i].type = EV_KEY /\ ev[i].value = 0
                    /\ i < Len(ev) /\ ev[i + 1] = SynEvent })
    + Cardinality({ i \in 1..Len(xd) : xd[i].cmd = "keyup" })

\* Exactly the output of one successful press / release of key
IsPressOutput(kind, key, ev, xd) ==
    IF kind = "uinput"
    THEN ev = << [type |-> EV_KEY, code |-> CodeOf(key), value |-> 1], SynEvent >> /\ xd = << >>
    ELSE ev = << >> /\ xd = << [cmd |-> "keydown", arg |-> ToLower(key)] >>

IsReleaseOutput(kind, key, ev, xd) ==
    IF kind = "uinput"
    THEN ev = << [type |-> EV_KEY, code |-> CodeOf(key), value |-> 0], SynEvent >> /\ xd = << >>
    ELSE ev = << >> /\ xd = << [cmd |-> "keyup", arg |-> ToLower(key)] >>

Silent(ev, xd) == ev = << >> /\ xd = << >>

\* The primary binding of a zone, as the flags name it
PrimaryKey(cfg, zone) ==
    CASE zone = "triangle" -> cfg.TriangleKey
      [] zone = "square" -> cfg.SquareKey
      [] zone = "cross" -> cfg.CrossKey
      [] zone = "circle" -> cfg.CircleKey

\* A direct caller made one Press or Release call in this step
CallStep == count' = count + 1

\* Connection c's HandleTouch ran its body in this step
Handled(c) == conn[c] # Idle /\ conn'[c] = Idle

(***************************************************************************)
(* Backend contract (SpecBackend)                                          *)
(***************************************************************************)
\* C1: Press on a key already marked pressed, and Release on a key not
\* marked pressed, emit nothing, return no error and leave the backend as it
\* was; a successful press followed by a press of the same key emits one
\* key-down in all.
C1_Idempotent ==
    [][ CallStep =>
          /\ (last'.op = "press" /\ MapGet(keyboard.keyState, last'.key)
                => /\ Silent(events', xdo')
                   /\ last'.err = "none"
                   /\ keyboard' = keyboard
                   /\ MapGet(keyboard'.keyState, last'.key))
          /\ (last'.op = "release" /\ ~MapGet(keyboard.keyState, last'.key)
                => /\ Silent(events', xdo')
                   /\ last'.err = "none"
                   /\ keyboard' = keyboard
                   /\ ~MapGet(keyboard'.keyState, last'.key))
          /\ ((last.op = "press" /\ ~last.was /\ last.err = "none"
               /\ last'.op = "press" /\ last'.key = last.key)
                => KeyEvents(events, xdo, 1) + KeyEvents(events', xdo', 1) = 1) ]_vars

\* A press of a key that was marked pressed has returned, having emitted nothing
C1_Witness ==
    /\ last.op = "press" /\ last.was /\ last.err = "none"
    /\ Silent(events, xdo)
    /\ MapGet(keyboard.keyState, last.key)

CloseStep == ~closed /\ closed'

\* C7 as stated: Close emits as many release events as keys were marked
\* pressed, and leaves no key marked pressed.
C7_CloseReleasesAll ==
    [][ CloseStep =>
          /\ KeyEvents(events', xdo', 0) = Cardinality(PressedKeys(keyboard.keyState))
          /\ PressedKeys(keyboard'.keyState) = {} ]_vars

\* C7 amended: Close tries to release every key marked pressed and ignores
\* the failures.  The keys it leaves marked pressed are those whose release
\* failed; every other key that was pressed got one completed release; no
\* key becomes pressed; when no release fails, the release events are as
\* many as the keys that were pressed and none stays marked pressed.
C7_CloseBestEffort ==
    [][ CloseStep =>
          LET before == PressedKeys(keyboard.keyState)
              after == PressedKeys(keyboard'.keyState)
              rel == before \ after
          IN  /\ after \subseteq before
              /\ Cardinality(after) = last'.dropped
              /\ CompletedUps(events', xdo') = Cardinality(rel)
              /\ \A k \in rel :
                   KeyEventsFor(k, events', xdo', 0)
                     >= Cardinality({ j \in rel : CodeOf(j) = CodeOf(k) /\ ToLower(j) = ToLower(k) })
              /\ (last'.dropped = 0
                    => /\ after = {}
                       /\ KeyEvents(events', xdo', 0) = Cardinality(before)) ]_vars

\* Close has run with two keys pressed: one was released, the release of
\* the other failed
C7_Witness ==
    /\ closed /\ last.op = "close"
    /\ last.dropped = 1
    /\ CompletedUps(events, xdo) = 1
    /\ Cardinality(PressedKeys(keyboard.keyState)) = 1

\* C8: once Close has been called, a Press or Release call emits nothing
\* and marks no key pressed.
C8_DeadAfterClose ==
    [][ closed /\ CallStep =>
          /\ Silent(events', xdo')
          /\ PressedKeys(keyboard'.keyState) \subseteq PressedKeys(keyboard.keyState) ]_vars

\* C9 as stated: Press of a name outside the key code table returns
\* UnknownKey, emits nothing and leaves the key state alone, on any backend.
C9_UnknownKey ==
    [][ CallStep /\ last'.op = "press" /\ last'.key \notin DOMAIN linuxKeyCodes =>
          /\ last'.err = "UnknownKey"
          /\ Silent(events', xdo')
          /\ keyboard'.keyState = keyboard.keyState ]_vars

\* C9 amended: that holds of the virtual device backend.  The xdotool
\* backend has no table: for a name not yet marked pressed it never returns
\* UnknownKey, runs the tool with the lowercased name and marks the name
\* pressed when the tool succeeds.
C9_UnknownKeyUInput ==
    [][ CallStep /\ last'.op = "press" /\ last'.key \notin DOMAIN linuxKeyCodes =>
          /\ (keyboard.kind = "uinput"
                => /\ last'.err = "UnknownKey"
                   /\ Silent(events', xdo')
                   /\ keyboard'.keyState = keyboard.keyState)
          /\ (keyboard.kind = "x11" /\ ~MapGet(keyboard.keyState, last'.key)
                => /\ last'.err \in {"none", "ExecError"}
                   /\ (last'.err = "none"
                         => /\ IsPressOutput("x11", last'.key, events', xdo')
                            /\ MapGet(keyboard'.keyState, last'.key))
                   /\ (last'.err = "ExecError"
                         => /\ Silent(events', xdo')
                            /\ keyboard'.keyState = keyboard.keyState)) ]_vars

\* The virtual device backend has refused a name outside the table
C9_Witness ==
    /\ keyboard.kind = "uinput"
    /\ last.op = "press" /\ last.key = "ZZZ" /\ last.err = "UnknownKey"
    /\ Silent(events, xdo)
    /\ "ZZZ" \notin DOMAIN keyboard.keyState

(***************************************************************************)
(* Startup (SpecStartup)                                                   *)
(***************************************************************************)
UInputOpens == env.uinput.step = "none"

\* C6: the virtual device backend is selected whenever its open succeeds,
\* and then xdotool is not tried; the xdotool backend is selected exactly
\* when the virtual device open fails, DISPLAY is set and xdotool is found;
\* otherwise selection fails with NoBackendAvailable and yields no backend.
C6_Selection ==
    pc # "start" =>
      /\ (UInputOpens
            => /\ keyboard.kind = "uinput"
               /\ attempted = <<"uinput">>
               /\ selErr = "none")
      /\ (keyboard.kind = "x11" <=> (~UInputOpens /\ env.display /\ env.xdotool))
      /\ (keyboard.kind = "x11" => selErr = "none" /\ attempted = <<"uinput", "x11">>)
      /\ ((~UInputOpens /\ ~(env.display /\ env.xdotool))
            => /\ keyboard = NoBackend
               /\ selErr = "NoBackendAvailable"
               /\ pc = "exited")
      /\ ((~UInputOpens /\ ~env.display) => attempted = <<"uinput">>)
      /\ (selErr = "none" <=> keyboard.kind # "none")

\* The fallback was taken: the virtual device failed and xdotool was selected
C6_Witness ==
    /\ pc = "serving"
    /\ ~UInputOpens
    /\ keyboard.kind = "x11"
    /\ attempted = <<"uinput", "x11">>

\* C10: when a step of NewUInputBackend after the open fails, the handle is
\* closed, nothing stays registered or created, and no virtual device
\* backend is returned; the backend is returned only when every step
\* succeeded, and then the device is complete.
C10_AllOrNothing ==
    pc # "start" =>
      /\ (env.uinput.step \in {"evbit", "keybit", "write", "create"}
            => /\ handle = "closed"
               /\ dev = NoDev
               /\ keyboard.kind # "uinput")
      /\ (env.uinput.step = "open"
            => /\ handle = "none"
               /\ dev = NoDev
               /\ keyboard.kind # "uinput")
      /\ (keyboard.kind = "uinput" <=> UInputOpens)
      /\ (keyboard.kind = "uinput"
            => /\ handle = "open"
               /\ dev = [evbit |-> TRUE, keybits |-> AllCodes, descr |-> TRUE,
                         created |-> TRUE])

\* The create command failed after every key code was registered
C10_Witness ==
    /\ pc # "start"
    /\ env.uinput.step = "create"
    /\ handle = "closed"
    /\ dev = NoDev
    /\ keyboard.kind # "uinput"

(***************************************************************************)
(* Controller (Spec)                                                       *)
(***************************************************************************)
\* The slider binding of a direction, as the flags name it
DirKey(d) == IF d = "right" THEN config.SliderRightKey ELSE config.SliderLeftKey

Pending(d) == sleeping[d] + running[d]

C3_Debounce ==
    /\ [](\A d \in Dirs : Pending(d) <= 1 /\ (sliderState[d] <=> Pending(d) = 1))
    /\ [][ \A c \in Conns :
             (/\ Handled(c)
              /\ conn[c].type = "slide"
              /\ \/ (conn[c].vx > 50 /\ sliderState.right)
                 \/ (conn[c].vx < -50 /\ sliderState.left))
             => /\ last'.op = "none"
                /\ Silent(events', xdo')
                /\ keyboard' = keyboard
                /\ sleeping' = sleeping
                /\ running' = running
                /\ sliderState' = sliderState ]_vars

\* A slide to the right was suppressed while the first auto-release sleeps
C3_Witness ==
    /\ last.by = "slide" /\ last.vx > 50 /\ last.op = "none"
    /\ sliderState.right
    /\ sleeping.right = 1

\* C4: whenever a direction's flag is clear (in particular after its
\* auto-release has run), a slide beyond the threshold in that direction
\* calls Press on the direction's slider key, sets the flag and starts one
\* goroutine; the call emits one press when the key is not marked pressed
\* and the emission succeeds.  The goroutine, when it runs, calls Release on
\* that key and clears the flag.
C4_Rearm ==
    [][ /\ \A c \in Conns : \A d \in Dirs :
             (/\ Handled(c)
              /\ conn[c].type = "slide"
              /\ (IF d = "right" THEN conn[c].vx > 50 ELSE conn[c].vx < -50)
              /\ ~sliderState[d])
             => /\ last'.by = "slide" /\ last'.op = "press" /\ last'.key = DirKey(d)
                /\ sliderState'[d]
                /\ sleeping'[d] = sleeping[d] + 1
                /\ ((~MapGet(keyboard.keyState, DirKey(d)) /\ last'.err = "none")
                      => /\ IsPressOutput(keyboard.kind, DirKey(d), events', xdo')
                         /\ MapGet(keyboard'.keyState, DirKey(d)))
        /\ \A d \in Dirs :
             running'[d] < running[d]
             => /\ last'.by = "auto" /\ last'.op = "release" /\ last'.key = DirKey(d)
                /\ ~sliderState'[d]
                /\ Pending(d)' = Pending(d) - 1
                /\ ((MapGet(keyboard.keyState, DirKey(d)) /\ last'.err = "none")
                      => /\ IsReleaseOutput(keyboard.kind, DirKey(d), events', xdo')
                         /\ ~MapGet(keyboard'.keyState, DirKey(d))) ]_vars

\* Under the default bindings the slider key E is pressed by right slides
\* and released by their auto-release only: E was in the key map, not
\* pressed, when this slide pressed it again and started its goroutine
C4_Witness ==
    /\ config = DefaultConfig
    /\ last.by = "slide" /\ last.vx > 50
    /\ last.op = "press" /\ last.key = "E" /\ last.err = "none"
    /\ last.seen /\ ~last.was
    /\ IsPressOutput(keyboard.kind, "E", events, xdo)
    /\ sliderState.right
    /\ sleeping.right = 1

\* C5: a slide with -0.5 <= vx <= 0.5 changes nothing; the right-slide
\* branch is taken only with vx > 0.5 and the left one only with vx < -0.5;
\* vx = 0.51 takes the right-slide branch (which acts when the right flag
\* is clear).
C5_Threshold ==
    [][ \A c \in Conns :
          (Handled(c) /\ conn[c].type = "slide")
          => /\ ((conn[c].vx <= 50 /\ conn[c].vx >= -50)
                   => /\ last'.op = "none"
                      /\ Silent(events', xdo')
                      /\ keyboard' = keyboard
                      /\ sliderState' = sliderState
                      /\ sleeping' = sleeping
                      /\ running' = running)
             /\ ((sleeping'.right # sleeping.right \/ sliderState'.right # sliderState.right)
                   => conn[c].vx > 50)
             /\ ((sleeping'.left # sleeping.left \/ sliderState'.left # sliderState.left)
                   => conn[c].vx < -50)
             /\ (last'.op # "none"
                   => (conn[c].vx > 50 /\ last'.key = config.SliderRightKey)
                      \/ (conn[c].vx < -50 /\ last'.key = config.SliderLeftKey))
             /\ ((conn[c].vx = 51 /\ ~sliderState.right)
                   => /\ last'.op = "press" /\ last'.key = config.SliderRightKey
                      /\ sliderState'.right
                      /\ sleeping'.right = sleeping.right + 1) ]_vars

\* A slide with vx exactly 0.5 was handled and nothing happened
C5_Witness ==
    /\ last.by = "slide" /\ last.vx = 50 /\ last.op = "none"
    /\ Silent(events, xdo)
    /\ ~sliderState.right /\ ~sliderState.left
    /\ Pending("right") = 0 /\ Pending("left") = 0

(***************************************************************************)
(* Shutdown (Spec)                                                         *)
(***************************************************************************)
\* C11: when the process has exited after a backend was selected, Close has
\* been called on the backend.
C11_CloseBeforeExit == (pc = "exited" /\ selErr = "none") => closed

(***************************************************************************)
(* The Controller under fair scheduling                                    *)
(***************************************************************************)
\* A handler that holds c.mu finishes its body; a goroutine that holds it
\* finishes; a goroutine waiting in c.mu.Lock() gets the mutex in the end,
\* however often handlers take it in between (sync.Mutex hands the lock to
\* a waiter that has waited long)
Fairness ==
    /\ \A c \in Conns : WF_vars(\E io \in IOs : HandleTouch(c, io))
    /\ \A d \in Dirs : SF_vars(AutoReleaseLock(d))
    /\ \A d \in Dirs : WF_vars(\E io \in IOs : AutoRelease(d, io))

\* The messages the clients send in this specification: slides on both
\* sides of the threshold, and the start and end of one zone
LiveEvents ==
    { ev \in TouchEvents :
        \/ ev.type = "slide" /\ ev.vx \in {-60, 50, 51}
        \/ ev.type \in {"start", "end"} /\ ev.zone = "triangle" /\ ev.id = 1 }

NextLive ==
    \/ Startup
    \/ ServerError
    \/ \E c \in Conns, ev \in LiveEvents : HandleTouchLock(c, ev)
    \/ \E c \in Conns, io \in IOs : HandleTouch(c, io)
    \/ \E d \in Dirs : AutoReleaseLock(d)
    \/ \E d \in Dirs, io \in IOs : AutoRelease(d, io)

SpecLive == Init /\ [][NextLive]_vars /\ Fairness

\* The goroutine of direction d has just run: it called Release on the
\* direction's slider key and cleared the flag
AutoReleased(d) ==
    /\ last.by = "auto" /\ last.zone = d
    /\ last.op = "release" /\ last.key = DirKey(d)
    /\ ~sliderState[d]
    /\ (last.err = "none" => ~MapGet(keyboard.keyState, DirKey(d)))

\* C12: whenever a direction's flag is set, the direction's goroutine later
\* takes the lock, calls Release on the slider key and clears the flag, as
\* long as the process runs, whatever is handled in between; a goroutine
\* leaves its sleep only by taking the lock and ends only by that release.
C12_AutoReleased ==
    /\ \A d \in Dirs : sliderState[d] ~> (AutoReleased(d) \/ pc = "exited")
    /\ [][ \A d \in Dirs :
             /\ (sleeping'[d] < sleeping[d] => running'[d] = running[d] + 1 /\ mu')
             /\ (running'[d] < running[d]
                   => last'.by = "auto" /\ last'.zone = d /\ ~sliderState'[d] /\ ~mu') ]_vars

\* The right flag was set, a start was handled while the goroutine slept,
\* and then the goroutine released the slider key
C12_Witness ==
    /\ config = DefaultConfig
    /\ count = 2
    /\ activeKeys # {}
    /\ AutoReleased("right")
    /\ last.was /\ last.err = "none"
    /\ IsReleaseOutput(keyboard.kind, "E", events, xdo)
    /\ Pending("right") = 0

(***************************************************************************)
(* Locking (Spec)                                                          *)
(***************************************************************************)
\* The activities inside the locked region: handlers past c.mu.Lock() and
\* goroutines past c.mu.Lock()
InCritical ==
    Cardinality({ c \in Conns : conn[c] # Idle }) + running.left + running.right

\* An activity ran its body (the backend call, the flag update) in this step
BodyStep ==
    \/ \E c \in Conns : Handled(c)
    \/ \E d \in Dirs : running'[d] < running[d]

\* C13: at most one activity is inside the locked region, and one is there
\* exactly when the lock is held; a body runs only as the one activity
\* holding the lock and gives the lock back; while serving, the key state,
\* the slider flags and the device output change only in such a step.
C13_RaceFree ==
    /\ [](InCritical <= 1 /\ (mu <=> InCritical = 1))
    /\ [][ /\ (BodyStep => mu /\ InCritical = 1 /\ ~mu' /\ InCritical' = 0)
           /\ ((pc = "serving"
                /\ (keyboard' # keyboard \/ sliderState' # sliderState
                    \/ events' # events \/ xdo' # xdo \/ last' # last))
                 => BodyStep) ]_vars

\* A handler holds the lock while the other connection is idle and the
\* goroutine of an earlier slide has not run yet
C13_Witness ==
    /\ mu
    /\ count = 2
    /\ InCritical = 1
    /\ \E c \in Conns : conn[c] # Idle /\ conn[c].type = "slide"
    /\ sliderState.right /\ sleeping.right = 1

(***************************************************************************)
(* Close beside the goroutines (SpecShutdown)                              *)
(***************************************************************************)
\* A Release made by Close's loop finished in this step
CloseEmitted == closing.phase = "emit" /\ closing'.phase = "loop"

\* C14: while Close and the auto-release goroutines run side by side (the
\* default bindings: a slider key is pressed by slides only), a slider key
\* gets a key-up, from Close or from its goroutine, only when it is marked
\* pressed at that moment; so a pressed slider key is released once, by
\* whichever of the two comes first, and not a second time by the other.
C14_ReleasedOnce ==
    [][ \A d \in Dirs :
          (/\ config = DefaultConfig
           /\ CloseEmitted \/ running'[d] < running[d]
           /\ last'.key = DirKey(d)
           /\ KeyEventsFor(DirKey(d), events', xdo', 0) > 0)
          => MapGet(keyboard.keyState, DirKey(d)) ]_vars

(***************************************************************************)
(* Failures of single calls (Spec)                                         *)
(***************************************************************************)
\* C15: when the Press or Release call of a handler or of a goroutine
\* returns an error, the activity still ends: the handler returns, the
\* goroutine clears its flag, the lock is given back and the process keeps
\* serving.  The lock is never left held by nobody, whatever failed before.
\* A start handled right after a failed activity does what a start does: a
\* key that is in the table, not marked pressed, whose writes succeed, gets
\* exactly one press and is marked pressed.
C15_ErrorsContained ==
    /\ [](InCritical = 0 => ~mu)
    /\ [][ /\ \A c \in Conns :
                (Handled(c) /\ last'.err # "none")
                => /\ ~mu' /\ conn'[c] = Idle /\ pc' = "serving"
                   /\ keyboard'.keyState = keyboard.keyState
           /\ \A d \in Dirs :
                (running'[d] < running[d] /\ last'.err # "none")
                => /\ ~mu' /\ pc' = "serving" /\ ~sliderState'[d]
                   /\ running'[d] = running[d] - 1
           /\ \A c \in Conns :
                (/\ Handled(c) /\ last.err # "none"
                 /\ conn[c].type = "start" /\ conn[c].zone \in ZoneNames
                 /\ ~MapGet(keyboard.keyState, PrimaryKey(config, conn[c].zone))
                 /\ last'.err = "none")
                => LET key == PrimaryKey(config, conn[c].zone)
                   IN  /\ last'.op = "press" /\ last'.key = key
                       /\ IsPressOutput(keyboard.kind, key, events', xdo')
                       /\ MapGet(keyboard'.keyState, key)
                       /\ ~mu' ]_vars

\* The press of the first start failed on a write; the handler returned and
\* the second message is now being handled under the lock
C15_Witness ==
    /\ pc = "serving"
    /\ last.by = "start" /\ last.op = "press" /\ last.err = "IOError"
    /\ ~MapGet(keyboard.keyState, last.key)
    /\ count = 2
    /\ mu
    /\ \E c \in Conns : conn[c] # Idle

(***************************************************************************)
(* The record stream of the virtual device (SpecBackend)                   *)
(***************************************************************************)
\* The records of a call end with a key event that has no synchronization
\* event after it
Dangling(ev) == ev # << >> /\ ev[Len(ev)].type = EV_KEY

\* C16: in the records written to the virtual device, a key event is
\* followed at once by a synchronization event: within what one call
\* writes, and from one call to the next (a call whose records end with a
\* key event is not followed by a call that starts with a key event).
C16_SynAfterKey ==
    [][ (CallStep /\ keyboard.kind = "uinput")
          => /\ \A i \in 1..(Len(events') - 1) :
                  events'[i].type = EV_KEY => events'[i + 1] = SynEvent
             /\ ~(Dangling(events) /\ events' # << >> /\ events'[1].type = EV_KEY) ]_vars

(***************************************************************************)
(* Key state after a failed emission (SpecBackend)                         *)
(***************************************************************************)
EmissionErrors == {"IOError", "ExecError"}

\* C17: a Press that returns an I/O or exec error leaves its key marked not
\* pressed, a Release that returns one leaves its key marked pressed, and
\* either leaves the whole key map as it was.
C17_Conservative ==
    [][ (CallStep /\ last'.err \in EmissionErrors)
          => /\ keyboard'.keyState = keyboard.keyState
             /\ (last'.op = "press" => ~MapGet(keyboard'.keyState, last'.key))
             /\ (last'.op = "release" => MapGet(keyboard'.keyState, last'.key)) ]_vars

\* A release failed on the write of its synchronization record; the key is
\* still marked pressed, beside another pressed key
C17_Witness ==
    /\ keyboard.kind = "uinput"
    /\ last.op = "release" /\ last.err = "IOError"
    /\ Dangling(events)
    /\ MapGet(keyboard.keyState, last.key)
    /\ Cardinality(PressedKeys(keyboard.keyState)) = 2

(***************************************************************************)
(* Key events per key code (SpecBackendOk)                                 *)
(***************************************************************************)
\* The names of the table with code c that are marked pressed
PressedNames(m, c) == { k \in PressedKeys(m) : CodeOf(k) = c }

\* C18: on the virtual device, with every call succeeding, a key-down of
\* code c is written only when no name of c is marked pressed (the last key
\* event of c was a key-up, or there was none), and a key-up of c leaves no
\* name of c marked pressed.
C18_Alternation ==
    [][ (CallStep /\ keyboard.kind = "uinput")
          => \A i \in 1..Len(events') :
               events'[i].type = EV_KEY
               => /\ (events'[i].value = 1
                        => PressedNames(keyboard.keyState, events'[i].code) = {})
                  /\ (events'[i].value = 0
                        => PressedNames(keyboard'.keyState, events'[i].code) = {}) ]_vars

(***************************************************************************)
(* Zone keys and active touches (SpecTouch)                                *)
(***************************************************************************)
\* C19 (its second half): with the default bindings, which are distinct,
\* and every backend call succeeding, when no handler is running and no
\* touch id is recorded as active, no zone's primary key is marked pressed.
C19_KeysFollowTouches ==
    (config = DefaultConfig /\ InCritical = 0 /\ activeKeys = {})
      => \A z \in ZoneNames : ~MapGet(keyboard.keyState, PrimaryKey(config, z))

(***************************************************************************)
(* The keys the Controller passes to the backend (Spec)                    *)
(***************************************************************************)
PrimaryKeys(cfg) == {cfg.TriangleKey, cfg.SquareKey, cfg.CrossKey, cfg.CircleKey}

SliderKeys(cfg) == {cfg.SliderLeftKey, cfg.SliderRightKey}

SecondaryKeys(cfg) == {cfg.UpArrowKey, cfg.DownArrowKey, cfg.LeftArrowKey, cfg.RightArrowKey}

\* C20: the key of every backend call a handler or a goroutine makes is a
\* primary zone key or a slider key, never an arrow binding: a start or an
\* end passes the primary key of its zone, a slide and its goroutine the
\* slider key of the direction.  A message with an unknown zone or an
\* unknown type makes no backend call.  So the key map only ever holds
\* primary and slider keys.
C20_PrimaryOnly ==
    /\ [](DOMAIN keyboard.keyState \subseteq PrimaryKeys(config) \cup SliderKeys(config))
    /\ [][ /\ (BodyStep /\ last'.op # "none")
                => /\ last'.key \in PrimaryKeys(config) \cup SliderKeys(config)
                   /\ last'.key \notin SecondaryKeys(config)
           /\ \A c \in Conns :
                Handled(c)
                => /\ (conn[c].type \in {"start", "end"} /\ conn[c].zone \in ZoneNames
                         => /\ last'.op = (IF conn[c].type = "start" THEN "press" ELSE "release")
                            /\ last'.key = PrimaryKey(config, conn[c].zone))
                   /\ ((conn[c].type = "slide" /\ last'.op # "none")
                         => last'.key \in SliderKeys(config))
                   /\ ((\/ conn[c].type \notin {"start", "end", "slide"}
                        \/ (conn[c].type \in {"start", "end"} /\ conn[c].zone \notin ZoneNames))
                         => /\ last'.op = "none"
                            /\ Silent(events', xdo')
                            /\ keyboard' = keyboard
                            /\ activeKeys' = activeKeys) ]_vars

\* After a start that pressed a zone key, a message of an unknown type was
\* handled and passed no key
C20_Witness ==
    /\ count = 2
    /\ last.by = "move" /\ last.op = "none"
    /\ Silent(events, xdo)
    /\ PressedKeys(keyboard.keyState) # {}
    /\ PressedKeys(keyboard.keyState) \subseteq PrimaryKeys(config)

====
